---- MODULE Spec2Model ----
(***************************************************************************)
(* NutriScan inference core: output decoding, non-maximum suppression,    *)
(* mask reconstruction, nutrition estimation and the worker pipeline.     *)
(*                                                                         *)
(* Numbers.  Box coordinates are integers in grid units; the corner       *)
(* arithmetic x -/+ width/2 is carried out in half units and areas in     *)
(* quarter units, so every value of calculateIoU is an exact fraction     *)
(* num/den.  Confidences and thresholds are in percent (0.25 is 25).      *)
(* A Float32Array cell read outside the array, or computed from such a    *)
(* read, is the value NaN.                                                 *)
(***************************************************************************)
EXTENDS Integers, Sequences, FiniteSets, TLC

VARIABLES
  pc,          \* position of the operation under study
  box1, box2,  \* arguments of calculateIoU
  iou,         \* value returned by calculateIoU
  detections,  \* argument of applyNMS: the RawDetection[] it receives
  kept,        \* value returned by applyNMS: references into detections
  output0,     \* detection tensor: [data, dims]
  rawDetections, \* value returned by parseYOLOOutput
  maskCoeffs,  \* argument of generateMask: a detection's coefficients
  output1,     \* mask prototype tensor: [data, dims]
  binaryMask,  \* value returned by generateMask
  clock,       \* performance.now(), in milliseconds
  startTime,   \* startTime of the runInference call in progress
  invocations, \* what each finished runInference call handed to its caller
  sessionRuns, \* number of session.run calls made so far
  softMask,    \* argument of resizeAndBinarizeMask: the soft mask
  resizeDims,  \* arguments of resizeAndBinarizeMask: srcH, srcW, dstH, dstW
  resizedMask, \* value returned by resizeAndBinarizeMask
  nutritionCalls, \* the calculateNutrition calls made: mask, foodInfo, result
  toProcess, \* argument of processDetections: the RawDetection[]
  results,     \* value returned by processDetections
  session,     \* worker: the ONNX session, NoValue for null
  isInitializing, \* worker: an InferenceSession.create is being awaited
  initError,   \* worker: the error of the last failed initialization
  requests,    \* worker: the request messages sent to it, by id
  handlers,    \* worker: where the onmessage call of each request stands
  posted,      \* worker: the responses passed to self.postMessage, in order
  worker,      \* client: this.worker, NoValue for null
  messageId,   \* client: this.messageId
  pendingRequests, \* client: this.pendingRequests, from ids to sendMessage calls
  timers,      \* client: the sendMessage calls whose setTimeout is armed
  promises,    \* client: the promise of each sendMessage call
  toWorker,    \* client: messages passed to worker.postMessage
  fromWorker,  \* client: responses of the worker not yet delivered
  isReady,     \* hook: the isReady state
  isProcessing, \* hook: the isProcessing state
  inferCalls,  \* hook: where each runInference call stands
  error        \* what the operation under study threw, NoValue if it returned

iouVars == <<box1, box2, iou>>
nmsVars == <<detections, kept>>
parseVars == <<output0, rawDetections>>
maskVars == <<maskCoeffs, output1, binaryMask>>
pipelineVars == <<clock, startTime, invocations, sessionRuns>>
resizeVars == <<softMask, resizeDims, resizedMask>>
nutritionVars == <<nutritionCalls>>
processVars == <<toProcess, results>>
workerVars == <<session, isInitializing, initError, requests, handlers, posted>>
clientVars == <<worker, messageId, pendingRequests, timers, promises, toWorker,
                fromWorker>>
hookVars == <<isReady, isProcessing, inferCalls>>

vars == <<pc, error, iouVars, nmsVars, parseVars, maskVars, pipelineVars,
          resizeVars, nutritionVars, processVars, workerVars, clientVars, hookVars>>

----------------------------------------------------------------------------
(* Bounds of the explored inputs *)

MaxCoord == 2        \* box centres range over 0..MaxCoord
MaxDim == 2          \* box width and height range over -1..MaxDim
MaxDetections == 3   \* longest list handed to applyNMS
MaxAnchors == 2      \* most anchors of a detection tensor
MaxRuns == 2         \* runInference calls on the same outputs
MaxClock == 2        \* the clock runs from 0 to MaxClock

(* The tensor layout, scaled down: the worker has 32 classes and 32 mask
   coefficients (inference.worker.ts:235-236) *)
numClasses == 2
numMaskCoeffs == 1

(* The resolutions, scaled down: the model input is 640 x 640
   (INFERENCE_CONFIG.INPUT_SIZE) and the prototypes 160 x 160 *)
INPUT_SIZE == 4
MaxProto == 2        \* prototype grids are up to MaxProto x MaxProto
MaxPixels == 4       \* longest mask handed to calculateNutrition directly
MaxCalls == 2        \* calculateNutrition calls compared with each other

(* 0.5, in thousandths *)
MASK_THRESHOLD == 500

(* Configuration, in percent *)
CONFIDENCE_THRESHOLD == 25
IOU_THRESHOLD == 45
MAX_DETECTIONS == 100

NoValue == "none"

Max(a, b) == IF a >= b THEN a ELSE b
Min(a, b) == IF a <= b THEN a ELSE b

----------------------------------------------------------------------------
(* calculateIoU *)

BoundingBox == [x : 0..MaxCoord, y : 0..MaxCoord,
                width : -1..MaxDim, height : -1..MaxDim]

Ratio(n, d) == [num |-> n, den |-> d]

\* a / b = c / d for fractions with non-zero denominators
RatEq(r, s) == r.num * s.den = s.num * r.den

\* r > p/100
RatGtPercent(r, p) ==
  IF r.den > 0 THEN r.num * 100 > p * r.den
               ELSE r.num * 100 < p * r.den

\* 0 <= r <= 1
RatInUnit(r) ==
  IF r.den > 0 THEN r.num >= 0 /\ r.num <= r.den
               ELSE r.num <= 0 /\ r.num >= r.den

\* Mutant: the union is taken as twice the first box's area
calculateIoU_firstAreaTwice(b1, b2) ==
  LET x1_min == 2 * b1.x - b1.width
      y1_min == 2 * b1.y - b1.height
      x1_max == 2 * b1.x + b1.width
      y1_max == 2 * b1.y + b1.height
      x2_min == 2 * b2.x - b2.width
      y2_min == 2 * b2.y - b2.height
      x2_max == 2 * b2.x + b2.width
      y2_max == 2 * b2.y + b2.height
      inter_width == Max(0, Min(x1_max, x2_max) - Max(x1_min, x2_min))
      inter_height == Max(0, Min(y1_max, y2_max) - Max(y1_min, y2_min))
      inter_area == inter_width * inter_height
      box1_area == 4 * b1.width * b1.height
      union_area == box1_area + box1_area - inter_area
  IN  IF union_area = 0 THEN Ratio(0, 1) ELSE Ratio(inter_area, union_area)

\* Mutant: the intersection extents are not clamped at 0
calculateIoU_noClamp(b1, b2) ==
  LET x1_min == 2 * b1.x - b1.width
      y1_min == 2 * b1.y - b1.height
      x1_max == 2 * b1.x + b1.width
      y1_max == 2 * b1.y + b1.height
      x2_min == 2 * b2.x - b2.width
      y2_min == 2 * b2.y - b2.height
      x2_max == 2 * b2.x + b2.width
      y2_max == 2 * b2.y + b2.height
      inter_width == Min(x1_max, x2_max) - Max(x1_min, x2_min)
      inter_height == Min(y1_max, y2_max) - Max(y1_min, y2_min)
      inter_area == inter_width * inter_height
      box1_area == 4 * b1.width * b1.height
      box2_area == 4 * b2.width * b2.height
      union_area == box1_area + box2_area - inter_area
  IN  IF union_area = 0 THEN Ratio(0, 1) ELSE Ratio(inter_area, union_area)

\* Mutant: the union is the sum of the two areas
calculateIoU_unionIsSum(b1, b2) ==
  LET x1_min == 2 * b1.x - b1.width
      y1_min == 2 * b1.y - b1.height
      x1_max == 2 * b1.x + b1.width
      y1_max == 2 * b1.y + b1.height
      x2_min == 2 * b2.x - b2.width
      y2_min == 2 * b2.y - b2.height
      x2_max == 2 * b2.x + b2.width
      y2_max == 2 * b2.y + b2.height
      inter_width == Max(0, Min(x1_max, x2_max) - Max(x1_min, x2_min))
      inter_height == Max(0, Min(y1_max, y2_max) - Max(y1_min, y2_min))
      inter_area == inter_width * inter_height
      box1_area == 4 * b1.width * b1.height
      box2_area == 4 * b2.width * b2.height
      union_area == box1_area + box2_area
  IN  IF union_area = 0 THEN Ratio(0, 1) ELSE Ratio(inter_area, union_area)

\* Mutant: the quotient is returned whatever the union area is
calculateIoU_noZeroGuard(b1, b2) ==
  LET inter_width == Max(0, Min(2 * b1.x + b1.width, 2 * b2.x + b2.width)
                            - Max(2 * b1.x - b1.width, 2 * b2.x - b2.width))
      inter_height == Max(0, Min(2 * b1.y + b1.height, 2 * b2.y + b2.height)
                             - Max(2 * b1.y - b1.height, 2 * b2.y - b2.height))
      inter_area == inter_width * inter_height
      union_area == 4 * b1.width * b1.height + 4 * b2.width * b2.height - inter_area
  IN  Ratio(inter_area, union_area)

calculateIoU(b1, b2) ==
  LET \* corners, in half units
      x1_min == 2 * b1.x - b1.width
      y1_min == 2 * b1.y - b1.height
      x1_max == 2 * b1.x + b1.width
      y1_max == 2 * b1.y + b1.height
      x2_min == 2 * b2.x - b2.width
      y2_min == 2 * b2.y - b2.height
      x2_max == 2 * b2.x + b2.width
      y2_max == 2 * b2.y + b2.height
      inter_x_min == Max(x1_min, x2_min)
      inter_y_min == Max(y1_min, y2_min)
      inter_x_max == Min(x1_max, x2_max)
      inter_y_max == Min(y1_max, y2_max)
      inter_width == Max(0, inter_x_max - inter_x_min)
      inter_height == Max(0, inter_y_max - inter_y_min)
      \* areas, in quarter units
      inter_area == inter_width * inter_height
      box1_area == 4 * b1.width * b1.height
      box2_area == 4 * b2.width * b2.height
      union_area == box1_area + box2_area - inter_area
  IN  IF union_area = 0 THEN Ratio(0, 1) ELSE Ratio(inter_area, union_area)

\* Extent of a box on one axis, in half units, whatever the sign of its size
Lo(c, d) == Min(2 * c - d, 2 * c + d)
Hi(c, d) == Max(2 * c - d, 2 * c + d)

\* The extents of the two boxes are disjoint or merely touch on the x axis
\* or on the y axis.
NoOverlapOnSomeAxis(b1, b2) ==
  \/ Hi(b1.x, b1.width) <= Lo(b2.x, b2.width)
  \/ Hi(b2.x, b2.width) <= Lo(b1.x, b1.width)
  \/ Hi(b1.y, b1.height) <= Lo(b2.y, b2.height)
  \/ Hi(b2.y, b2.height) <= Lo(b1.y, b1.height)

PositiveBox(b) == b.width > 0 /\ b.height > 0

----------------------------------------------------------------------------
(* applyNMS *)

\* A RawDetection as applyNMS reads it.  The array holds object references:
\* an element of the returned list is the index of the input element it is.
ClassIds == {0, 1, 2}
Confidences == {20, 60, 90}
NMSBoxes ==
  { [x |-> 0, y |-> 0, width |-> 2, height |-> 2],
    [x |-> 0, y |-> 0, width |-> 2, height |-> 1],
    [x |-> 0, y |-> 0, width |-> 1, height |-> 1] }

RawDetection == [classId : ClassIds, confidence : Confidences, box : NMSBoxes]

DetectionLists == UNION { [1..n -> RawDetection] : n \in 0..MaxDetections }

\* Classes the upstream model is known to conflate (configuration)
ConfusionGroups == { {0, 1} }

SameConfusionGroup(c1, c2) == \E g \in ConfusionGroups : c1 \in g /\ c2 \in g

\* Mutant: the confidence filter is left to the caller
FilterByConfidence_trustsCaller(dets, confThreshold) ==
  [i \in 1..Len(dets) |-> i]

\* detections.filter((d) => d.confidence >= confThreshold)
FilterByConfidence(dets, confThreshold) ==
  SelectSeq([i \in 1..Len(dets) |-> i],
            LAMBDA i : dets[i].confidence >= confThreshold)

\* Mutant: equal confidences are placed newest first
RECURSIVE InsertByConfidence_tiesReversed(_, _, _)
InsertByConfidence_tiesReversed(dets, sorted, r) ==
  IF sorted = <<>> THEN <<r>>
  ELSE IF dets[Head(sorted)].confidence > dets[r].confidence
       THEN <<Head(sorted)>> \o InsertByConfidence_tiesReversed(dets, Tail(sorted), r)
       ELSE <<r>> \o sorted

\* One step of the stable sort with comparator (a, b) => b.confidence -
\* a.confidence: r, which follows every element of sorted in the array, goes
\* behind every element the comparator does not order after it.
RECURSIVE InsertByConfidence(_, _, _)
InsertByConfidence(dets, sorted, r) ==
  IF sorted = <<>> THEN <<r>>
  ELSE IF dets[r].confidence - dets[Head(sorted)].confidence <= 0
       THEN <<Head(sorted)>> \o InsertByConfidence(dets, Tail(sorted), r)
       ELSE <<r>> \o sorted

\* filtered.sort((a, b) => b.confidence - a.confidence)
RECURSIVE SortByConfidence(_, _)
SortByConfidence(dets, refs) ==
  IF refs = <<>> THEN <<>>
  ELSE InsertByConfidence(dets,
                          SortByConfidence(dets, SubSeq(refs, 1, Len(refs) - 1)),
                          refs[Len(refs)])

\* Mutant: the pair is compared whatever the two classes are
SuppressedBy_anyClass(dets, filtered, suppressed, i, iouThreshold) ==
  { j \in (i + 1)..Len(filtered) :
      /\ j \notin suppressed
      /\ RatGtPercent(calculateIoU(dets[filtered[i]].box, dets[filtered[j]].box),
                      iouThreshold) }

\* The inner loop of applyNMS for the kept detection at position i: the later
\* positions it adds to the suppressed set.
SuppressedBy(dets, filtered, suppressed, i, iouThreshold) ==
  { j \in (i + 1)..Len(filtered) :
      /\ j \notin suppressed
      /\ dets[filtered[i]].classId = dets[filtered[j]].classId
      /\ RatGtPercent(calculateIoU(dets[filtered[i]].box, dets[filtered[j]].box),
                      iouThreshold) }

\* Mutant: a suppressed position is not skipped
RECURSIVE NMSLoop_noSkip(_, _, _, _, _, _)
NMSLoop_noSkip(dets, filtered, i, suppressed, result, iouThreshold) ==
  IF i > Len(filtered) THEN result
  ELSE NMSLoop_noSkip(dets, filtered, i + 1,
               suppressed \cup SuppressedBy(dets, filtered, suppressed, i, iouThreshold),
               Append(result, filtered[i]), iouThreshold)

\* The outer loop of applyNMS from position i on
RECURSIVE NMSLoop(_, _, _, _, _, _)
NMSLoop(dets, filtered, i, suppressed, result, iouThreshold) ==
  IF i > Len(filtered) THEN result
  ELSE IF i \in suppressed
       THEN NMSLoop(dets, filtered, i + 1, suppressed, result, iouThreshold)
       ELSE NMSLoop(dets, filtered, i + 1,
               suppressed \cup SuppressedBy(dets, filtered, suppressed, i, iouThreshold),
               Append(result, filtered[i]), iouThreshold)

applyNMS(dets, confThreshold, iouThreshold) ==
  LET filtered == FilterByConfidence(dets, confThreshold)
  IN  IF Len(filtered) = 0 THEN <<>>
      ELSE NMSLoop(dets, SortByConfidence(dets, filtered), 1, {}, <<>>, iouThreshold)

----------------------------------------------------------------------------
(* Float32Array cells *)

\* A cell is a number, NaN (what a read outside the array becomes once it is
\* stored in a Float32Array or used in arithmetic) or -Infinity.
Num(n) == [kind |-> "num", v |-> n]
NaN == [kind |-> "nan", v |-> 0]
NegInfinity == [kind |-> "-inf", v |-> 0]

IsNum(f) == f.kind = "num"

\* a > b
FGt(a, b) ==
  IF a.kind = "nan" \/ b.kind = "nan" THEN FALSE
  ELSE IF a.kind = "-inf" THEN FALSE
  ELSE IF b.kind = "-inf" THEN TRUE
  ELSE a.v > b.v

\* a < b
FLt(a, b) == FGt(b, a)

\* Mutant: a > b in the place of a >= b
FGe_strict(a, b) ==
  IF a.kind = "nan" \/ b.kind = "nan" THEN FALSE
  ELSE IF a.kind = "-inf" THEN FALSE
  ELSE IF b.kind = "-inf" THEN TRUE
  ELSE a.v > b.v

\* a >= b
FGe(a, b) ==
  IF a.kind = "nan" \/ b.kind = "nan" THEN FALSE
  ELSE IF b.kind = "-inf" THEN TRUE
  ELSE IF a.kind = "-inf" THEN FALSE
  ELSE a.v >= b.v

\* a + b and a * b on numbers and NaN
FAdd(a, b) == IF IsNum(a) /\ IsNum(b) THEN Num(a.v + b.v) ELSE NaN
FMul(a, b) == IF IsNum(a) /\ IsNum(b) THEN Num(a.v * b.v) ELSE NaN

\* data[k] for a 0-based index k into the sequence data
At(data, k) == IF k >= 0 /\ k < Len(data) THEN data[k + 1] ELSE NaN

----------------------------------------------------------------------------
(* parseYOLOOutput *)

\* Mutant: a later class wins a tie
RECURSIVE ScanClasses_lastWins(_, _, _, _, _, _)
ScanClasses_lastWins(data, numAnchors, i, c, maxScore, maxClassId) ==
  IF c >= numClasses THEN [maxScore |-> maxScore, maxClassId |-> maxClassId]
  ELSE LET score == At(data, (4 + c) * numAnchors + i)
       IN  IF FGe(score, maxScore)
           THEN ScanClasses_lastWins(data, numAnchors, i, c + 1, score, c)
           ELSE ScanClasses_lastWins(data, numAnchors, i, c + 1, maxScore, maxClassId)

\* The scan for the best class of anchor i, from class c on
RECURSIVE ScanClasses(_, _, _, _, _, _)
ScanClasses(data, numAnchors, i, c, maxScore, maxClassId) ==
  IF c >= numClasses THEN [maxScore |-> maxScore, maxClassId |-> maxClassId]
  ELSE LET score == At(data, (4 + c) * numAnchors + i)
       IN  IF FGt(score, maxScore)
           THEN ScanClasses(data, numAnchors, i, c + 1, score, c)
           ELSE ScanClasses(data, numAnchors, i, c + 1, maxScore, maxClassId)

\* The detection pushed for anchor i; coordinates are kept in units of
\* 1 / INPUT_SIZE of the frame, in which x / INPUT_SIZE is the cell itself.
AnchorDetection(data, numAnchors, i, best) ==
  [ classId |-> best.maxClassId,
    confidence |-> best.maxScore.v,
    box |-> [ x |-> At(data, i).v,
              y |-> At(data, numAnchors + i).v,
              width |-> At(data, 2 * numAnchors + i).v,
              height |-> At(data, 3 * numAnchors + i).v ],
    maskCoeffs |-> [ m \in 1..numMaskCoeffs |->
                       At(data, (4 + numClasses + (m - 1)) * numAnchors + i) ] ]

\* The loop over the anchors from anchor i on
RECURSIVE ParseAnchors(_, _, _)
ParseAnchors(data, numAnchors, i) ==
  IF i >= numAnchors THEN <<>>
  ELSE LET best == ScanClasses(data, numAnchors, i, 0, NegInfinity, 0)
       IN  IF FLt(best.maxScore, Num(CONFIDENCE_THRESHOLD))
           THEN ParseAnchors(data, numAnchors, i + 1)
           ELSE <<AnchorDetection(data, numAnchors, i, best)>>
                  \o ParseAnchors(data, numAnchors, i + 1)

\* dims is [batch, channels, numAnchors]; batch and channels are not read
parseYOLOOutput(data, dims) == ParseAnchors(data, dims[3], 0)

\* The channel count the configured layout asks for
ExpectedChannels == 4 + numClasses + numMaskCoeffs

\* Tensors explored: the declared channel count is the expected one, one
\* less or one more, and the data fills the declared shape.  Every anchor has
\* the box cells BoxCells; a class-score cell is 0.10, 0.90 or 0.25 (the
\* threshold itself) according to its level, the threshold being tried on
\* the first anchor only; the cells of the later channels are 0 for the
\* first anchor, 1 for the second and -1 for the third, and so on.
BoxCells == <<2, 2, 2, 2>>

ScoreLevels == <<10, 90, 25>>

TensorData(channels, numAnchors, bits) ==
  [ k \in 1..(channels * numAnchors) |->
      LET channel == (k - 1) \div numAnchors
          anchor == (k - 1) % numAnchors
      IN  IF channel < 4 THEN Num(BoxCells[channel + 1])
          ELSE IF channel < 4 + numClasses
               THEN Num(ScoreLevels[bits[k - 4 * numAnchors] + 1])
               ELSE Num(((anchor + 1) % 3) - 1) ]

Output0TensorsWith(channels, levels) ==
  UNION { { [ data |-> TensorData(channels, numAnchors, bits),
              dims |-> <<1, channels, numAnchors>> ] :
            bits \in { b \in [1..(numClasses * numAnchors) -> levels] :
                         \A k \in 1..(numClasses * numAnchors) :
                            (k - 1) % numAnchors # 0 => b[k] \in {0, 1} } } :
          numAnchors \in 1..MaxAnchors }

Output0TensorsOf(channels) == Output0TensorsWith(channels, {0, 1})

Output0Tensors ==
  UNION { Output0TensorsWith(channels, {0, 1, 2}) :
          channels \in (ExpectedChannels - 1)..(ExpectedChannels + 1) }

----------------------------------------------------------------------------
(* generateMask and resizeAndBinarizeMask *)

\* 1 / (1 + Math.exp(-sum)) in thousandths, for the sums the explored
\* tensors produce (|sum| <= 3 is tabulated, larger sums take the end value)
Sigmoid(sum) ==
  IF ~IsNum(sum) THEN NaN
  ELSE Num(CASE sum.v <= -3 -> 47
             [] sum.v = -2 -> 119
             [] sum.v = -1 -> 269
             [] sum.v = 0 -> 500
             [] sum.v = 1 -> 731
             [] sum.v = 2 -> 881
             [] OTHER -> 953)

\* The inner loop of generateMask for position i, from channel c on
RECURSIVE WeightedSum(_, _, _, _, _, _, _)
WeightedSum(coeffs, protos, numProtos, outputSize, i, c, sum) ==
  IF c >= numProtos THEN sum
  ELSE WeightedSum(coeffs, protos, numProtos, outputSize, i, c + 1,
                   FAdd(sum, FMul(At(coeffs, c), At(protos, c * outputSize + i))))

\* Math.floor(x * scale) where scale = src / dst was computed first, in IEEE
\* doubles.  Where x * src / dst is an integer q and the product of x and the
\* rounded quotient falls just below q, the floor is q - 1; among the sizes
\* explored this happens once: 360 * (112 / 640) = 62.99999999999999.
RoundsBelowInteger == { <<360, 112, 640>> }

FloorOfScaled(x, src, dst) ==
  IF <<x, src, dst>> \in RoundsBelowInteger
  THEN ((x * src) \div dst) - 1
  ELSE (x * src) \div dst

\* Mutant: the soft mask is binarized at the prototype resolution
resizeAndBinarizeMask_notResized(mask, srcH, srcW, dstH, dstW, threshold) ==
  [ k \in 1..(srcH * srcW) |->
      IF FGe(At(mask, k - 1), Num(threshold)) THEN 1 ELSE 0 ]

\* Mutant: rows and columns of the source are exchanged
resizeAndBinarizeMask_swapped(mask, srcH, srcW, dstH, dstW, threshold) ==
  [ k \in 1..(dstH * dstW) |->
      LET y == (k - 1) \div dstW
          x == (k - 1) % dstW
          srcX == (y * srcW) \div dstW
          srcY == (x * srcH) \div dstH
      IN  IF FGe(At(mask, srcY * srcW + srcX), Num(threshold)) THEN 1 ELSE 0 ]

\* Nearest-neighbour resize
resizeAndBinarizeMask(mask, srcH, srcW, dstH, dstW, threshold) ==
  [ k \in 1..(dstH * dstW) |->
      LET y == (k - 1) \div dstW
          x == (k - 1) % dstW
          srcX == FloorOfScaled(x, srcW, dstW)
          srcY == FloorOfScaled(y, srcH, dstH)
          value == At(mask, srcY * srcW + srcX)
      IN  IF FGe(value, Num(threshold)) THEN 1 ELSE 0 ]

\* The soft mask of generateMask, before the resize
SoftMask(coeffs, protos, dims) ==
  LET numProtos == dims[2]
      outputSize == dims[3] * dims[4]
  IN  [ k \in 1..outputSize |->
          Sigmoid(WeightedSum(coeffs, protos, numProtos, outputSize, k - 1, 0, Num(0))) ]

\* dims is [_, numProtos, protoH, protoW]; the function has no throw
\* statement and returns its mask
generateMask(coeffs, protos, dims) ==
  resizeAndBinarizeMask(SoftMask(coeffs, protos, dims), dims[3], dims[4],
                        INPUT_SIZE, INPUT_SIZE, MASK_THRESHOLD)

\* Prototype tensors explored: in every channel the first n cells hold 1 and
\* the others -1, for some n; the data fills the declared shape.
CoeffValues == {-1, 0, 1}

ProtoData(numProtos, outputSize, ones) ==
  [ k \in 1..(numProtos * outputSize) |->
      LET c == (k - 1) \div outputSize
          i == (k - 1) % outputSize
      IN  Num(IF i < ones[c + 1] THEN 1 ELSE -1) ]

ProtoTensorsOf(numProtos, protoH, protoW) ==
  { [ data |-> ProtoData(numProtos, protoH * protoW, ones),
      dims |-> <<1, numProtos, protoH, protoW>> ] :
    ones \in [1..numProtos -> 0..(protoH * protoW)] }

ProtoTensors ==
  UNION { ProtoTensorsOf(n, h, w) :
          n \in numMaskCoeffs..(numMaskCoeffs + 1),
          h \in 1..MaxProto, w \in 1..MaxProto }

CoeffVectors ==
  UNION { { [ m \in 1..n |-> Num(v[m]) ] : v \in [1..n -> CoeffValues] } :
          n \in numMaskCoeffs..(numMaskCoeffs + 1) }

\* Calls of resizeAndBinarizeMask explored: the grids generateMask hands over
\* at the scaled-down resolution, single rows of them, and one row of a
\* 112-wide grid resized to the 640 of INFERENCE_CONFIG.INPUT_SIZE
ResizeCalls ==
  { [ srcH |-> h, srcW |-> w, dstH |-> dh, dstW |-> INPUT_SIZE ] :
      h \in 1..MaxProto, w \in 1..MaxProto, dh \in {1, INPUT_SIZE} }
    \cup { [ srcH |-> 1, srcW |-> 112, dstH |-> 1, dstW |-> 640 ] }

\* Soft masks explored: the first n cells hold hi (0.731, or the threshold
\* 0.5 itself) and the others 0.269
SoftMasks(len) ==
  { [ k \in 1..len |-> Num(IF k <= n THEN hi ELSE 269) ] :
      n \in 0..len, hi \in {500, 731} }

----------------------------------------------------------------------------
(* FoodInfo lookup and calculateNutrition *)

\* Quantities of the nutrition formula are exact fractions in lowest terms
RECURSIVE GCD(_, _)
GCD(a, b) == IF b = 0 THEN a ELSE GCD(b, a % b)

Q(n, d) ==
  LET g == GCD(IF n < 0 THEN -n ELSE n, d)
  IN  [num |-> n \div g, den |-> d \div g]

QMul(r, s) == Q(r.num * s.num, r.den * s.den)
QAdd(r, s) == Q(r.num * s.den + s.num * r.den, r.den * s.den)

\* The records of FOOD_DATABASE for the classes the scaled parser can emit
FOOD_DATABASE ==
  [ c \in {0, 1, 2} |->
      CASE c = 0 -> [ id |-> 0, name |-> "Pain",
                      density |-> Q(25, 100), defaultThicknessCm |-> Q(20, 10),
                      caloriesPer100g |-> Q(265, 1), proteinPer100g |-> Q(90, 10),
                      carbsPer100g |-> Q(490, 10), fatPer100g |-> Q(32, 10),
                      fiberPer100g |-> Q(27, 10), icon |-> "bread" ]
        [] c = 1 -> [ id |-> 1, name |-> "Oignon",
                      density |-> Q(55, 100), defaultThicknessCm |-> Q(15, 10),
                      caloriesPer100g |-> Q(40, 1), proteinPer100g |-> Q(11, 10),
                      carbsPer100g |-> Q(93, 10), fatPer100g |-> Q(1, 10),
                      fiberPer100g |-> Q(17, 10), icon |-> "onion" ]
        [] c = 2 -> [ id |-> 2, name |-> "Poulet",
                      density |-> Q(95, 100), defaultThicknessCm |-> Q(25, 10),
                      caloriesPer100g |-> Q(165, 1), proteinPer100g |-> Q(310, 10),
                      carbsPer100g |-> Q(0, 10), fatPer100g |-> Q(36, 10),
                      fiberPer100g |-> Q(0, 10), icon |-> "poultry leg" ] ]

FALLBACK_FOOD_INFO ==
  [ id |-> -1, name |-> "Aliment inconnu",
    density |-> Q(5, 10), defaultThicknessCm |-> Q(15, 10),
    caloriesPer100g |-> Q(100, 1), proteinPer100g |-> Q(50, 10),
    carbsPer100g |-> Q(150, 10), fatPer100g |-> Q(30, 10),
    fiberPer100g |-> Q(10, 10), icon |-> "question mark" ]

\* Mutant: an id the database does not hold is given the first record
getFoodInfo_firstOnUnknown(classId) ==
  IF classId \in DOMAIN FOOD_DATABASE THEN FOOD_DATABASE[classId]
  ELSE FOOD_DATABASE[0]

getFoodInfo(classId) ==
  IF classId \in DOMAIN FOOD_DATABASE THEN FOOD_DATABASE[classId]
  ELSE FALLBACK_FOOD_INFO

\* mask.reduce((sum, val) => sum + val, 0)
RECURSIVE SumSeq(_)
SumSeq(seq) == IF seq = <<>> THEN 0 ELSE Head(seq) + SumSeq(Tail(seq))

\* 30 cm across a frame of INPUT_SIZE pixels
PIXEL_RATIO == Q(30, INPUT_SIZE)

\* Mutant: a mask without pixels is given the reference values of 100 g
calculateNutrition_defaultsOnZero(mask, foodInfo) ==
  LET pixelCount == SumSeq(mask)
      weightGrams == QMul(QMul(QMul(Q(pixelCount, 1), QMul(PIXEL_RATIO, PIXEL_RATIO)),
                               foodInfo.defaultThicknessCm), foodInfo.density)
      scaleFactor == IF pixelCount = 0 THEN Q(1, 1) ELSE QMul(weightGrams, Q(1, 100))
  IN  [ weightGrams |-> QMul(scaleFactor, Q(100, 1)),
        calories |-> QMul(scaleFactor, foodInfo.caloriesPer100g),
        protein |-> QMul(scaleFactor, foodInfo.proteinPer100g),
        carbs |-> QMul(scaleFactor, foodInfo.carbsPer100g),
        fat |-> QMul(scaleFactor, foodInfo.fatPer100g),
        fiber |-> QMul(scaleFactor, foodInfo.fiberPer100g) ]

\* Mutant: the area is the square of pixelCount * pixelRatio
calculateNutrition_squaredCount(mask, foodInfo) ==
  LET pixelCount == SumSeq(mask)
      side == QMul(Q(pixelCount, 1), PIXEL_RATIO)
      weightGrams == QMul(QMul(QMul(side, side), foodInfo.defaultThicknessCm),
                          foodInfo.density)
      scaleFactor == QMul(weightGrams, Q(1, 100))
  IN  [ weightGrams |-> weightGrams,
        calories |-> QMul(scaleFactor, foodInfo.caloriesPer100g),
        protein |-> QMul(scaleFactor, foodInfo.proteinPer100g),
        carbs |-> QMul(scaleFactor, foodInfo.carbsPer100g),
        fat |-> QMul(scaleFactor, foodInfo.fatPer100g),
        fiber |-> QMul(scaleFactor, foodInfo.fiberPer100g) ]

calculateNutrition(mask, foodInfo) ==
  LET pixelCount == SumSeq(mask)
      areaRealCm2 == QMul(Q(pixelCount, 1), QMul(PIXEL_RATIO, PIXEL_RATIO))
      volumeCm3 == QMul(areaRealCm2, foodInfo.defaultThicknessCm)
      weightGrams == QMul(volumeCm3, foodInfo.density)
      scaleFactor == QMul(weightGrams, Q(1, 100))
  IN  IF pixelCount = 0
      THEN [ weightGrams |-> Q(0, 1), calories |-> Q(0, 1), protein |-> Q(0, 1),
             carbs |-> Q(0, 1), fat |-> Q(0, 1), fiber |-> Q(0, 1) ]
      ELSE [ weightGrams |-> weightGrams,
             calories |-> QMul(scaleFactor, foodInfo.caloriesPer100g),
             protein |-> QMul(scaleFactor, foodInfo.proteinPer100g),
             carbs |-> QMul(scaleFactor, foodInfo.carbsPer100g),
             fat |-> QMul(scaleFactor, foodInfo.fatPer100g),
             fiber |-> QMul(scaleFactor, foodInfo.fiberPer100g) ]

\* Masks handed to calculateNutrition directly: up to MaxPixels cells, the
\* ones first or the ones last
BinaryMasks ==
  UNION { { [ k \in 1..len |-> IF k <= n THEN 1 ELSE 0 ] : n \in 0..len }
          \cup { [ k \in 1..len |-> IF k > len - n THEN 1 ELSE 0 ] : n \in 0..len } :
          len \in {MaxPixels \div 2, MaxPixels} }

\* Food references handed to calculateNutrition: what getFoodInfo returns
FoodInfos == { FOOD_DATABASE[c] : c \in DOMAIN FOOD_DATABASE } \cup {FALLBACK_FOOD_INFO}

----------------------------------------------------------------------------
(* processDetections and runInference *)

\* The Detection built for one detection kept by applyNMS
DetectionOf(detection, maskProtos, protoDims) ==
  LET foodInfo == getFoodInfo(detection.classId)
      mask == generateMask(detection.maskCoeffs, maskProtos, protoDims)
  IN  [ classId |-> detection.classId,
        label |-> foodInfo.name,
        confidence |-> detection.confidence,
        box |-> detection.box,
        mask |-> mask,
        nutrition |-> calculateNutrition(mask, foodInfo),
        icon |-> foodInfo.icon ]

\* Mutant: the results array is declared at module level and is not reset,
\* so a call returns the detections of the earlier calls before its own
processDetections_sharedResults(dets, maskProtos, protoDims) ==
  (IF Len(invocations) > 0 /\ invocations[Len(invocations)].type = "INFER_SUCCESS"
   THEN invocations[Len(invocations)].payload.detections ELSE <<>>)
  \o [ i \in 1..Len(dets) |-> DetectionOf(dets[i], maskProtos, protoDims) ]

processDetections(dets, maskProtos, protoDims) ==
  [ i \in 1..Len(dets) |-> DetectionOf(dets[i], maskProtos, protoDims) ]

\* Mutant: the sum starts from the calories of the first detection's successor
RECURSIVE TotalCalories_skipsFirst(_)
TotalCalories_skipsFirst(dets) ==
  IF Len(dets) <= 1 THEN Q(0, 1)
  ELSE QAdd(TotalCalories_skipsFirst(SubSeq(dets, 1, Len(dets) - 1)),
            dets[Len(dets)].nutrition.calories)

\* detections.reduce((sum, d) => sum + d.nutrition.calories, 0)
RECURSIVE TotalCalories(_)
TotalCalories(dets) ==
  IF dets = <<>> THEN Q(0, 1)
  ELSE QAdd(TotalCalories(SubSeq(dets, 1, Len(dets) - 1)),
            dets[Len(dets)].nutrition.calories)

NothingDetectedMessage == "Aucun aliment detecte. Essayez de vous rapprocher."

\* Mutant: the message is set whatever the detections are
InferenceResultOf_messageAlways(out0, out1, processingTime) ==
  LET raw == parseYOLOOutput(out0.data, out0.dims)
      filteredRefs == applyNMS(raw, CONFIDENCE_THRESHOLD, IOU_THRESHOLD)
      filteredDetections == [ i \in 1..Len(filteredRefs) |-> raw[filteredRefs[i]] ]
      dets == processDetections(filteredDetections, out1.data, out1.dims)
  IN  [ detections |-> dets,
        totalCalories |-> TotalCalories(dets),
        processingTime |-> processingTime,
        message |-> NothingDetectedMessage ]

\* Steps 3 to 6 of runInference and the result it returns, for outputs that
\* are both present; processingTime is performance.now() - startTime
InferenceResultOf(out0, out1, processingTime) ==
  LET raw == parseYOLOOutput(out0.data, out0.dims)
      filteredRefs == applyNMS(raw, CONFIDENCE_THRESHOLD, IOU_THRESHOLD)
      filteredDetections == [ i \in 1..Len(filteredRefs) |-> raw[filteredRefs[i]] ]
      dets == processDetections(filteredDetections, out1.data, out1.dims)
  IN  [ detections |-> dets,
        totalCalories |-> TotalCalories(dets),
        processingTime |-> processingTime,
        message |-> IF Len(dets) = 0 THEN NothingDetectedMessage ELSE NoValue ]

\* outputs.output0 or outputs.output1 when session.run returned no such
\* output: a value without data and without dims
Undefined == [ data |-> <<>>, dims |-> <<>> ]

\* Mutant: a missing output is answered with an empty result
runInference_emptyOnMissing(out0, out1, processingTime) ==
  IF out0 = Undefined \/ out1 = Undefined
  THEN [ type |-> "INFER_SUCCESS",
         payload |-> [ detections |-> <<>>, totalCalories |-> Q(0, 1),
                       processingTime |-> processingTime,
                       message |-> NothingDetectedMessage ] ]
  ELSE [ type |-> "INFER_SUCCESS",
         payload |-> InferenceResultOf(out0, out1, processingTime) ]

\* What one call of runInference with a session hands to its caller: the
\* result, or the error thrown when an output is missing
runInference(out0, out1, processingTime) ==
  IF out0 = Undefined \/ out1 = Undefined
  THEN [ type |-> "ERROR", payload |-> [ message |-> "Missing model outputs" ] ]
  ELSE [ type |-> "INFER_SUCCESS",
         payload |-> InferenceResultOf(out0, out1, processingTime) ]

\* Outputs of session.run explored by the pipeline: detection tensors of the
\* expected layout, prototype tensors of full size whose channels are alike,
\* or an output that is missing
PipelineOutput0 == Output0TensorsOf(ExpectedChannels) \cup {Undefined}

PipelineOutput1 ==
  { [ data |-> ProtoData(numMaskCoeffs, MaxProto * MaxProto,
                         [ c \in 1..numMaskCoeffs |-> n ]),
      dims |-> <<1, numMaskCoeffs, MaxProto, MaxProto>> ] :
    n \in {0, 1, MaxProto * MaxProto} }
    \cup {Undefined}

\* Class ids handed to processDetections: the ids of the modelled database
\* records and two ids the database does not hold
LookupClassIds == {0, 1, 2, 3, 31}

\* Lists handed to processDetections: up to MaxDetections detections of
\* these classes, each with the same box, confidence and coefficients
ProcessedLists ==
  UNION { [ 1..n -> { [ classId |-> c, confidence |-> 90,
                        box |-> [ x |-> 2, y |-> 2, width |-> 2, height |-> 2 ],
                        maskCoeffs |-> [ m \in 1..numMaskCoeffs |-> Num(1) ] ] :
                      c \in LookupClassIds } ] :
          n \in 0..MaxDetections }

----------------------------------------------------------------------------
(* Specifications: one per operation, its inputs drawn in the initial state *)

IdleIoU == box1 = NoValue /\ box2 = NoValue /\ iou = NoValue
IdleNMS == detections = <<>> /\ kept = <<>>
IdleParse == output0 = NoValue /\ rawDetections = NoValue
IdlePipeline ==
  clock = 0 /\ startTime = NoValue /\ invocations = <<>> /\ sessionRuns = 0
IdleMask == maskCoeffs = NoValue /\ output1 = NoValue /\ binaryMask = NoValue
IdleResize == softMask = NoValue /\ resizeDims = NoValue /\ resizedMask = NoValue
IdleNutrition == nutritionCalls = <<>>
IdleProcess == toProcess = NoValue /\ results = NoValue
IdleWorker ==
  /\ session = NoValue /\ isInitializing = FALSE /\ initError = NoValue
  /\ requests = <<>> /\ handlers = <<>> /\ posted = <<>>
IdleClient ==
  /\ worker = NoValue /\ messageId = 0 /\ pendingRequests = <<>> /\ timers = {}
  /\ promises = <<>> /\ toWorker = <<>> /\ fromWorker = {}
IdleHook == isReady = FALSE /\ isProcessing = FALSE /\ inferCalls = <<>>

InitIoU ==
  /\ pc = "start"
  /\ error = NoValue
  /\ box1 \in BoundingBox
  /\ box2 \in BoundingBox
  /\ iou = NoValue
  /\ IdleNMS /\ IdleParse /\ IdleMask /\ IdlePipeline /\ IdleResize /\ IdleNutrition
  /\ IdleProcess /\ IdleWorker /\ IdleClient /\ IdleHook

CalcIoU ==
  /\ pc = "start"
  /\ iou' = calculateIoU(box1, box2)
  /\ pc' = "done"
  /\ UNCHANGED <<error, box1, box2, nmsVars, parseVars, maskVars, pipelineVars,
               resizeVars, nutritionVars, processVars, workerVars, clientVars, hookVars>>

NextIoU == CalcIoU

SpecIoU == InitIoU /\ [][NextIoU]_vars

InitNMS ==
  /\ pc = "start"
  /\ error = NoValue
  /\ detections \in DetectionLists
  /\ kept = <<>>
  /\ IdleIoU /\ IdleParse /\ IdleMask /\ IdlePipeline /\ IdleResize /\ IdleNutrition
  /\ IdleProcess /\ IdleWorker /\ IdleClient /\ IdleHook

\* runInference step 4: applyNMS(rawDetections) with the default thresholds
ApplyNMS ==
  /\ pc = "start"
  /\ kept' = applyNMS(detections, CONFIDENCE_THRESHOLD, IOU_THRESHOLD)
  /\ pc' = "done"
  /\ UNCHANGED <<error, detections, iouVars, parseVars, maskVars, pipelineVars,
               resizeVars, nutritionVars, processVars, workerVars, clientVars, hookVars>>

NextNMS == ApplyNMS

SpecNMS == InitNMS /\ [][NextNMS]_vars

InitParse ==
  /\ pc = "start"
  /\ error = NoValue
  /\ output0 \in Output0Tensors
  /\ rawDetections = NoValue
  /\ IdleIoU /\ IdleNMS /\ IdleMask /\ IdlePipeline /\ IdleResize /\ IdleNutrition
  /\ IdleProcess /\ IdleWorker /\ IdleClient /\ IdleHook

\* runInference step 3: parseYOLOOutput(output0Data, [...output0.dims]);
\* the function has no throw statement and returns its list
ParseOutput ==
  /\ pc = "start"
  /\ rawDetections' = parseYOLOOutput(output0.data, output0.dims)
  /\ error' = NoValue
  /\ pc' = "done"
  /\ UNCHANGED <<output0, iouVars, nmsVars, maskVars, pipelineVars,
               resizeVars, nutritionVars, processVars, workerVars, clientVars, hookVars>>

NextParse == ParseOutput

SpecParse == InitParse /\ [][NextParse]_vars

InitMask ==
  /\ pc = "start"
  /\ error = NoValue
  /\ maskCoeffs \in CoeffVectors
  /\ output1 \in ProtoTensors
  /\ binaryMask = NoValue
  /\ IdleIoU /\ IdleNMS /\ IdleParse /\ IdlePipeline /\ IdleResize /\ IdleNutrition
  /\ IdleProcess /\ IdleWorker /\ IdleClient /\ IdleHook

\* processDetections: generateMask(detection.maskCoeffs, maskProtos, protoDims)
GenerateMask ==
  /\ pc = "start"
  /\ binaryMask' = generateMask(maskCoeffs, output1.data, output1.dims)
  /\ error' = NoValue
  /\ pc' = "done"
  /\ UNCHANGED <<maskCoeffs, output1, iouVars, nmsVars, parseVars, pipelineVars,
               resizeVars, nutritionVars, processVars, workerVars, clientVars, hookVars>>

NextMask == GenerateMask

SpecMask == InitMask /\ [][NextMask]_vars

InitResize ==
  /\ pc = "start"
  /\ error = NoValue
  /\ resizeDims \in ResizeCalls
  /\ softMask \in SoftMasks(resizeDims.srcH * resizeDims.srcW)
  /\ resizedMask = NoValue
  /\ IdleIoU /\ IdleNMS /\ IdleParse /\ IdleMask /\ IdlePipeline /\ IdleNutrition
  /\ IdleProcess /\ IdleWorker /\ IdleClient /\ IdleHook

\* resizeAndBinarizeMask(mask, srcH, srcW, dstH, dstW, threshold), called
\* with INFERENCE_CONFIG.MASK_THRESHOLD as generateMask does
ResizeAndBinarize ==
  /\ pc = "start"
  /\ resizedMask' = resizeAndBinarizeMask(softMask, resizeDims.srcH, resizeDims.srcW,
                                          resizeDims.dstH, resizeDims.dstW,
                                          MASK_THRESHOLD)
  /\ pc' = "done"
  /\ UNCHANGED <<error, softMask, resizeDims, iouVars, nmsVars, parseVars,
                 maskVars, pipelineVars, nutritionVars, processVars, workerVars, clientVars, hookVars>>

NextResize == ResizeAndBinarize

SpecResize == InitResize /\ [][NextResize]_vars

InitNutrition ==
  /\ pc = "idle"
  /\ error = NoValue
  /\ nutritionCalls = <<>>
  /\ IdleIoU /\ IdleNMS /\ IdleParse /\ IdleMask /\ IdlePipeline /\ IdleResize
  /\ IdleProcess /\ IdleWorker /\ IdleClient /\ IdleHook

\* processDetections: calculateNutrition(mask, foodInfo)
CalculateNutrition ==
  /\ Len(nutritionCalls) < MaxCalls
  /\ \E mask \in BinaryMasks, foodInfo \in FoodInfos :
        nutritionCalls' = Append(nutritionCalls,
                                 [ mask |-> mask, foodInfo |-> foodInfo,
                                   nutrition |-> calculateNutrition(mask, foodInfo) ])
  /\ UNCHANGED <<pc, error, iouVars, nmsVars, parseVars, maskVars, pipelineVars,
                 resizeVars, processVars, workerVars, clientVars, hookVars>>

NextNutrition == CalculateNutrition

SpecNutrition == InitNutrition /\ [][NextNutrition]_vars

InitProcess ==
  /\ pc = "start"
  /\ error = NoValue
  /\ toProcess \in ProcessedLists
  /\ output1 \in PipelineOutput1 \ {Undefined}
  /\ maskCoeffs = NoValue
  /\ binaryMask = NoValue
  /\ results = NoValue
  /\ IdleIoU /\ IdleNMS /\ IdleParse /\ IdlePipeline /\ IdleResize /\ IdleNutrition
  /\ IdleWorker /\ IdleClient /\ IdleHook

\* runInference step 5: processDetections(filteredDetections, output1Data,
\* [...output1.dims]); the function has no throw statement
ProcessDetections ==
  /\ pc = "start"
  /\ results' = processDetections(toProcess, output1.data, output1.dims)
  /\ error' = NoValue
  /\ pc' = "done"
  /\ UNCHANGED <<toProcess, iouVars, nmsVars, parseVars, maskVars,
                 pipelineVars, resizeVars, nutritionVars, workerVars,
                 clientVars, hookVars>>

NextProcess == ProcessDetections

SpecProcess == InitProcess /\ [][NextProcess]_vars

\* The pipeline, called again and again on the same outputs of session.run
InitPipeline ==
  /\ pc = "idle"
  /\ error = NoValue
  /\ output0 \in PipelineOutput0
  /\ output1 \in PipelineOutput1
  /\ rawDetections = NoValue
  /\ maskCoeffs = NoValue
  /\ binaryMask = NoValue
  /\ clock = 0
  /\ startTime = NoValue
  /\ invocations = <<>>
  /\ sessionRuns = 0
  /\ IdleIoU /\ IdleNMS /\ IdleResize /\ IdleNutrition
  /\ IdleProcess /\ IdleWorker /\ IdleClient /\ IdleHook

\* const startTime = performance.now()
StartInference ==
  /\ pc = "idle"
  /\ Len(invocations) < MaxRuns
  /\ startTime' = clock
  /\ pc' = "running"
  /\ UNCHANGED <<error, clock, invocations, sessionRuns, iouVars, nmsVars, parseVars, maskVars,
               resizeVars, nutritionVars, processVars, workerVars, clientVars, hookVars>>

\* Wall-clock time passes while a call is in progress (runInference awaits
\* the session, the preprocessing, session.run and processDetections)
Tick ==
  /\ pc = "running"
  /\ clock < MaxClock
  /\ clock' = clock + 1
  /\ UNCHANGED <<pc, error, startTime, invocations, sessionRuns, iouVars, nmsVars, parseVars, maskVars,
               resizeVars, nutritionVars, processVars, workerVars, clientVars, hookVars>>

\* The rest of runInference: session.run is awaited once, and its outputs
\* are taken through to the return or the throw
CompleteInference ==
  /\ pc = "running"
  /\ sessionRuns' = sessionRuns + 1
  /\ invocations' = Append(invocations, runInference(output0, output1, clock - startTime))
  /\ startTime' = NoValue
  /\ pc' = "idle"
  /\ UNCHANGED <<error, clock, iouVars, nmsVars, parseVars, maskVars,
               resizeVars, nutritionVars, processVars, workerVars, clientVars, hookVars>>

NextPipeline == StartInference \/ Tick \/ CompleteInference

SpecPipeline == InitPipeline /\ [][NextPipeline]_vars

----------------------------------------------------------------------------
(* The worker's message handler (inference.worker.ts:302-354) over the shared
   session state (inference.worker.ts:23-25).  Every request message starts
   one call of the async handler.  A call runs without interruption up to the
   next await of an external operation (InferenceSession.create, the polling
   timer of waitForInitialization, preprocessImage, session.run,
   processDetections, session.release); other calls run while it waits. *)

MaxRequests == 3     \* request messages sent to the worker

RequestIds == 1..MaxRequests

\* WorkerRequest, and what else a message may be: an INFER without its
\* imageData and a type the handler does not know
RequestKinds ==
  { [type |-> "INIT", payload |-> NoValue],
    [type |-> "INFER", payload |-> "imageData"],
    [type |-> "INFER", payload |-> NoValue],
    [type |-> "TERMINATE", payload |-> NoValue],
    [type |-> "PING", payload |-> NoValue] }

\* WorkerResponse; message is the payload of an ERROR
WorkerResponse(id, type, message) ==
  [id |-> id, type |-> type, message |-> message]

\* Mutant: every case posts INIT_SUCCESS
SuccessType_alwaysInit(type) == "INIT_SUCCESS"

\* The type posted when the case of a request type runs to its postMessage
SuccessType(type) ==
  CASE type = "INIT" -> "INIT_SUCCESS"
    [] type = "INFER" -> "INFER_SUCCESS"
    [] type = "TERMINATE" -> "TERMINATE_SUCCESS"

\* Mutant: the isInitializing test is absent
InitializeSessionEntry_noWait(sess, initializing) ==
  IF sess # NoValue THEN "return" ELSE "create"

\* initializeSession up to its first await: return at once, poll for the
\* initialization in flight, or start one
InitializeSessionEntry(sess, initializing) ==
  IF sess # NoValue THEN "return"
  ELSE IF initializing THEN "wait"
  ELSE "create"

\* Mutant: the flag is reset after a successful creation only
InitializeSessionSettled_noFinally(ok) ==
  [ session |-> IF ok THEN "session" ELSE session,
    initError |-> IF ok THEN initError ELSE "create failed",
    isInitializing |-> ~ok ]

\* The shared state when the awaited InferenceSession.create has settled:
\* the assignment to session or the catch block, then the finally block
InitializeSessionSettled(ok) ==
  [ session |-> IF ok THEN "session" ELSE session,
    initError |-> IF ok THEN initError ELSE "create failed",
    isInitializing |-> FALSE ]

\* if (!session) throw new Error("Failed to initialize ONNX session"), the
\* second test of runInference
SessionCheck(sess) ==
  IF sess = NoValue THEN "Failed to initialize ONNX session" ELSE NoValue

----------------------------------------------------------------------------
(* The worker: concurrent calls of self.onmessage *)

workerOthers == <<pc, error, iouVars, nmsVars, parseVars, maskVars, pipelineVars,
                  resizeVars, nutritionVars, processVars, clientVars, hookVars>>

InitWorker ==
  /\ pc = "idle"
  /\ error = NoValue
  /\ session = NoValue
  /\ isInitializing = FALSE
  /\ initError = NoValue
  /\ requests \in [RequestIds -> RequestKinds]
  /\ handlers = [r \in RequestIds |-> "queued"]
  /\ posted = <<>>
  /\ IdleIoU /\ IdleNMS /\ IdleParse /\ IdleMask /\ IdlePipeline /\ IdleResize
  /\ IdleNutrition /\ IdleProcess /\ IdleClient /\ IdleHook

\* self.postMessage(response), the last statement of its call
PostAndFinish(r, type, message) ==
  /\ posted' = Append(posted, WorkerResponse(r, type, message))
  /\ handlers' = [handlers EXCEPT ![r] = "done"]

\* The call goes on to await at the given place
AwaitAt(r, place) ==
  /\ handlers' = [handlers EXCEPT ![r] = place]
  /\ UNCHANGED posted

\* What call r does when its await initializeSession() has returned and
\* session is sess: case "INIT" posts INIT_SUCCESS, runInference tests the
\* session again and goes on to preprocessImage
AfterInitializeSession(r, sess) ==
  IF requests[r].type = "INIT"
    THEN PostAndFinish(r, SuccessType("INIT"), NoValue)
    ELSE IF SessionCheck(sess) # NoValue
           THEN PostAndFinish(r, "ERROR", SessionCheck(sess))
           ELSE AwaitAt(r, "preprocessImage")

\* initializeSession called by call r: up to its first await
EnterInitializeSession(r) ==
  LET entry == InitializeSessionEntry(session, isInitializing)
  IN  CASE entry = "return" ->
             /\ AfterInitializeSession(r, session)
             /\ UNCHANGED <<session, isInitializing, initError>>
        [] entry = "wait" ->
             /\ AwaitAt(r, "waitForInitialization")
             /\ UNCHANGED <<session, isInitializing, initError>>
        [] entry = "create" ->
             /\ isInitializing' = TRUE
             /\ AwaitAt(r, "create")
             /\ UNCHANGED <<session, initError>>

\* self.onmessage is called with the next request of the queue and runs up
\* to its first await or to its postMessage
Receive(r) ==
  /\ handlers[r] = "queued"
  /\ \A q \in RequestIds : q < r => handlers[q] # "queued"
  /\ LET type == requests[r].type
     IN  CASE type = "INIT" -> EnterInitializeSession(r)
           [] type = "INFER" ->
                IF requests[r].payload = NoValue
                  THEN /\ PostAndFinish(r, "ERROR", "Missing imageData in INFER request")
                       /\ UNCHANGED <<session, isInitializing, initError>>
                  ELSE IF session = NoValue
                         THEN EnterInitializeSession(r)
                         ELSE /\ AfterInitializeSession(r, session)
                              /\ UNCHANGED <<session, isInitializing, initError>>
           [] type = "TERMINATE" ->
                /\ IF session # NoValue
                     THEN AwaitAt(r, "release")
                     ELSE PostAndFinish(r, SuccessType("TERMINATE"), NoValue)
                /\ UNCHANGED <<session, isInitializing, initError>>
           [] OTHER ->
                /\ PostAndFinish(r, "ERROR", "Unknown message type")
                /\ UNCHANGED <<session, isInitializing, initError>>
  /\ UNCHANGED <<requests, workerOthers>>

\* The InferenceSession.create awaited by call r settles
CreateSettles(r) ==
  /\ handlers[r] = "create"
  /\ \E ok \in BOOLEAN :
       LET after == InitializeSessionSettled(ok)
       IN  /\ session' = after.session
           /\ initError' = after.initError
           /\ isInitializing' = after.isInitializing
           /\ IF ok THEN AfterInitializeSession(r, after.session)
                    ELSE PostAndFinish(r, "ERROR", after.initError)
  /\ UNCHANGED <<requests, workerOthers>>

\* The interval callback of waitForInitialization finds isInitializing false
\* and resolves; initializeSession returns to call r
PollResolves(r) ==
  /\ handlers[r] = "waitForInitialization"
  /\ ~isInitializing
  /\ AfterInitializeSession(r, session)
  /\ UNCHANGED <<session, isInitializing, initError, requests, workerOthers>>

\* preprocessImage settles; on success session.run is called on session
PreprocessSettles(r) ==
  /\ handlers[r] = "preprocessImage"
  /\ \E ok \in BOOLEAN :
       IF ~ok THEN PostAndFinish(r, "ERROR", "preprocessImage failed")
       ELSE IF session = NoValue
              THEN PostAndFinish(r, "ERROR", "session is null")
              ELSE AwaitAt(r, "run")
  /\ UNCHANGED <<session, isInitializing, initError, requests, workerOthers>>

\* session.run settles: rejected, an output missing, or on to the awaited
\* processDetections
RunSettles(r) ==
  /\ handlers[r] = "run"
  /\ \E outcome \in {"ok", "session.run failed", "Missing model outputs"} :
       IF outcome = "ok" THEN AwaitAt(r, "processDetections")
                         ELSE PostAndFinish(r, "ERROR", outcome)
  /\ UNCHANGED <<session, isInitializing, initError, requests, workerOthers>>

\* processDetections settles; the result is posted
PostprocessSettles(r) ==
  /\ handlers[r] = "processDetections"
  /\ \E ok \in BOOLEAN :
       IF ok THEN PostAndFinish(r, SuccessType("INFER"), NoValue)
             ELSE PostAndFinish(r, "ERROR", "processDetections failed")
  /\ UNCHANGED <<session, isInitializing, initError, requests, workerOthers>>

\* session.release() settles; session = null follows its success
ReleaseSettles(r) ==
  /\ handlers[r] = "release"
  /\ \E ok \in BOOLEAN :
       IF ok THEN /\ session' = NoValue
                  /\ PostAndFinish(r, SuccessType("TERMINATE"), NoValue)
             ELSE /\ UNCHANGED session
                  /\ PostAndFinish(r, "ERROR", "release failed")
  /\ UNCHANGED <<isInitializing, initError, requests, workerOthers>>

NextWorker ==
  \E r \in RequestIds :
    \/ Receive(r)
    \/ CreateSettles(r)
    \/ PollResolves(r)
    \/ PreprocessSettles(r)
    \/ RunSettles(r)
    \/ PostprocessSettles(r)
    \/ ReleaseSettles(r)

SpecWorker == InitWorker /\ [][NextWorker]_vars

\* The event loop runs a task that is ready, and every awaited external
\* operation settles
SpecWorkerLive == SpecWorker /\ WF_vars(NextWorker)

----------------------------------------------------------------------------
(* InferenceWorkerClient (workerClient.ts).  Its methods and the callbacks it
   registers run on the main thread, one at a time; the worker answers, the
   timers fire and the worker's error event arrives in between. *)

MaxSends == 3        \* calls of initialize() and infer() on one client

\* Map.prototype.set, delete and the empty Map
MapSet(map, key, value) ==
  [k \in DOMAIN map \cup {key} |-> IF k = key THEN value ELSE map[k]]

MapDelete(map, key) == [k \in DOMAIN map \ {key} |-> map[k]]

EmptyMap == [k \in {} |-> 0]

\* Mutant: the counter is not advanced
NextMessageId_same(n) == n

\* this.messageId++ : the counter after taking an id
NextMessageId(n) == n + 1

\* `${this.messageId++}` : the id taken, a decimal string
MessageIdString(n) == ToString(n)

\* Mutant: no timeout is set up
ArmTimeout_never(armed, i) == armed

\* setTimeout(..., timeoutMs) for the promise of call i
ArmTimeout(armed, i) == armed \cup {i}

\* new Promise: pending, with the id of its request (NoValue when none was
\* taken) and the number of times its resolve or reject has been called
NewPromise(type, id) ==
  [type |-> type, id |-> id, state |-> "pending", reason |-> NoValue, calls |-> 0]

\* resolve(...) or reject(...) called on a promise: the first call settles it
Settle(promise, state, reason) ==
  IF promise.state = "pending"
    THEN [promise EXCEPT !.state = state, !.reason = reason, !.calls = @ + 1]
    ELSE [promise EXCEPT !.calls = @ + 1]

\* Mutant: the entries are dropped without rejecting their promises
RejectAllPending_none(ps, map, reason) == ps

\* pendingRequests.forEach(pending => pending.reject(new Error(reason)))
RejectAllPending(ps, map, reason) ==
  [i \in DOMAIN ps |->
     IF \E k \in DOMAIN map : map[k] = i
       THEN Settle(ps[i], "rejected", reason)
       ELSE ps[i]]

\* pendingRequests.forEach(pending => clearTimeout(pending.timeout))
ClearAllTimeouts(armed, map) == armed \ { map[k] : k \in DOMAIN map }

clientOthers == <<pc, error, iouVars, nmsVars, parseVars, maskVars, pipelineVars,
                  resizeVars, nutritionVars, processVars, workerVars, hookVars>>

\* The constructor has run: initWorker created the worker
InitClient ==
  /\ pc = "idle"
  /\ error = NoValue
  /\ worker = "worker"
  /\ messageId = 0
  /\ pendingRequests = EmptyMap
  /\ timers = {}
  /\ promises = <<>>
  /\ toWorker = <<>>
  /\ fromWorker = {}
  /\ IdleIoU /\ IdleNMS /\ IdleParse /\ IdleMask /\ IdlePipeline /\ IdleResize
  /\ IdleNutrition /\ IdleProcess /\ IdleWorker /\ IdleHook

\* initialize() or infer(imageData): sendMessage(type, payload, timeoutMs)
SendMessage(type) ==
  /\ Len(promises) < MaxSends
  /\ IF worker = NoValue
       THEN /\ promises' = Append(promises,
                  Settle(NewPromise(type, NoValue), "rejected", "Worker not initialized"))
            /\ UNCHANGED <<messageId, timers, pendingRequests, toWorker>>
       ELSE LET id == MessageIdString(messageId)
                i == Len(promises) + 1
            IN  /\ messageId' = NextMessageId(messageId)
                /\ timers' = ArmTimeout(timers, i)
                /\ pendingRequests' = MapSet(pendingRequests, id, i)
                /\ toWorker' = Append(toWorker, [id |-> id, type |-> type, answered |-> FALSE])
                /\ promises' = Append(promises, NewPromise(type, id))
  /\ UNCHANGED <<worker, fromWorker, clientOthers>>

\* The timeout callback of call i runs
Timeout(i) ==
  /\ i \in timers
  /\ timers' = timers \ {i}
  /\ pendingRequests' = MapDelete(pendingRequests, promises[i].id)
  /\ promises' = [promises EXCEPT ![i] = Settle(@, "rejected", "Worker request timeout")]
  /\ UNCHANGED <<worker, messageId, toWorker, fromWorker, clientOthers>>

\* The worker, still running, answers a message: one response with the
\* message's id, the success of its type or ERROR
WorkerAnswers(k) ==
  /\ worker # NoValue
  /\ k \in DOMAIN toWorker
  /\ ~toWorker[k].answered
  /\ \E type \in {SuccessType(toWorker[k].type), "ERROR"} :
       fromWorker' = fromWorker \cup {[id |-> toWorker[k].id, type |-> type]}
  /\ toWorker' = [toWorker EXCEPT ![k].answered = TRUE]
  /\ UNCHANGED <<worker, messageId, pendingRequests, timers, promises, clientOthers>>

\* worker.onmessage is called with a response
OnMessage(response) ==
  /\ response \in fromWorker
  /\ fromWorker' = fromWorker \ {response}
  /\ IF response.id \notin DOMAIN pendingRequests
       THEN UNCHANGED <<timers, pendingRequests, promises>>
       ELSE LET i == pendingRequests[response.id]
            IN  /\ timers' = timers \ {i}
                /\ pendingRequests' = MapDelete(pendingRequests, response.id)
                /\ promises' = [promises EXCEPT ![i] =
                     IF response.type = "ERROR"
                       THEN Settle(@, "rejected", "ERROR response")
                       ELSE Settle(@, "resolved", response.id)]
  /\ UNCHANGED <<worker, messageId, toWorker, clientOthers>>

\* worker.onerror is called
OnError ==
  /\ worker # NoValue
  /\ timers' = ClearAllTimeouts(timers, pendingRequests)
  /\ promises' = RejectAllPending(promises, pendingRequests, "Worker crashed")
  /\ pendingRequests' = EmptyMap
  /\ UNCHANGED <<worker, messageId, toWorker, fromWorker, clientOthers>>

\* terminate()
Terminate ==
  /\ IF worker # NoValue
       THEN /\ toWorker' = Append(toWorker,
                  [id |-> "cleanup", type |-> "TERMINATE", answered |-> FALSE])
            /\ worker' = NoValue
       ELSE UNCHANGED <<toWorker, worker>>
  /\ timers' = ClearAllTimeouts(timers, pendingRequests)
  /\ promises' = RejectAllPending(promises, pendingRequests, "Worker terminated")
  /\ pendingRequests' = EmptyMap
  /\ UNCHANGED <<messageId, fromWorker, clientOthers>>

NextClient ==
  \/ \E type \in {"INIT", "INFER"} : SendMessage(type)
  \/ \E i \in 1..MaxSends : Timeout(i)
  \/ \E k \in 1..(MaxSends + 1) : WorkerAnswers(k)
  \/ \E response \in fromWorker : OnMessage(response)
  \/ OnError
  \/ Terminate

SpecClient == InitClient /\ [][NextClient]_vars

\* An armed timer fires unless it is cleared; nothing else is promised: the
\* worker may never answer
SpecClientLive == SpecClient /\ WF_vars(\E i \in 1..MaxSends : Timeout(i))

----------------------------------------------------------------------------
(* useInference, the React hook: the state it keeps and its
   runInference callback.  A call of runInference runs up to its await of
   workerRef.current.infer and is resumed when that promise settles; other
   calls may start and finish in between.  error is the hook's error state. *)

MaxInferCalls == 4   \* calls of the hook's runInference

hookOthers == <<iouVars, nmsVars, parseVars, maskVars, pipelineVars,
                resizeVars, nutritionVars, processVars, workerVars, clientVars>>

\* The mount effect has created the client and called initialize()
InitHook ==
  /\ pc = "initializing"
  /\ error = NoValue
  /\ isReady = FALSE
  /\ isProcessing = FALSE
  /\ inferCalls = <<>>
  /\ IdleIoU /\ IdleNMS /\ IdleParse /\ IdleMask /\ IdlePipeline /\ IdleResize
  /\ IdleNutrition /\ IdleProcess /\ IdleWorker /\ IdleClient

\* The promise of initialize() settles: the then or the catch callback
InitializeSettles ==
  /\ pc = "initializing"
  /\ \E ok \in BOOLEAN :
       IF ok THEN isReady' = TRUE /\ error' = NoValue
             ELSE isReady' = FALSE /\ error' = "Failed to initialize inference engine"
  /\ pc' = "mounted"
  /\ UNCHANGED <<isProcessing, inferCalls, hookOthers>>

\* runInference(imageData) is called: up to its await
CallRunInference ==
  /\ Len(inferCalls) < MaxInferCalls
  /\ IF ~isReady
       THEN /\ inferCalls' = Append(inferCalls, "Worker not ready")
            /\ UNCHANGED <<isProcessing, error>>
       ELSE /\ isProcessing' = TRUE
            /\ error' = NoValue
            /\ inferCalls' = Append(inferCalls, "in flight")
  /\ UNCHANGED <<pc, isReady, hookOthers>>

\* The promise of infer() awaited by call i settles: return or catch, then
\* the finally block
InferSettles(i) ==
  /\ i \in DOMAIN inferCalls
  /\ inferCalls[i] = "in flight"
  /\ \E ok \in BOOLEAN :
       IF ok THEN /\ inferCalls' = [inferCalls EXCEPT ![i] = "returned"]
                  /\ UNCHANGED error
             ELSE /\ inferCalls' = [inferCalls EXCEPT ![i] = "thrown"]
                  /\ error' = "inference failed"
  /\ isProcessing' = FALSE
  /\ UNCHANGED <<pc, isReady, hookOthers>>

NextHook ==
  \/ InitializeSettles
  \/ CallRunInference
  \/ \E i \in 1..MaxInferCalls : InferSettles(i)

SpecHook == InitHook /\ [][NextHook]_vars

----------------------------------------------------------------------------
(* Properties of calculateIoU, under SpecIoU *)

\* C6 (as stated): for every box b, calculateIoU(b, b) equals 1.  Read here
\* on the boxes whose width and height are not negative.
C6_SelfIoUIsOne_AllBoxes ==
  (pc = "done" /\ box1 = box2 /\ box1.width >= 0 /\ box1.height >= 0)
     => RatEq(iou, Ratio(1, 1))

\* C6 (amended): for every box b with positive width and positive height,
\* calculateIoU(b, b) equals 1; for a box with zero width or zero height the
\* union area is 0 and the value is 0.
C6_SelfIoUIsOne_PositiveBoxes ==
  (pc = "done" /\ box1 = box2) =>
     /\ PositiveBox(box1) => RatEq(iou, Ratio(1, 1))
     /\ (box1.width = 0 \/ box1.height = 0) => iou = Ratio(0, 1)

C6_Witness ==
  pc = "done" /\ box1 = box2 /\ PositiveBox(box1) /\ iou.num = iou.den

\* C7: for all boxes b1 and b2, calculateIoU(b1, b2) equals
\* calculateIoU(b2, b1).
C7_IoUSymmetric ==
  pc = "done" => RatEq(iou, calculateIoU(box2, box1))

C7_Witness ==
  /\ pc = "done"
  /\ PositiveBox(box1) /\ PositiveBox(box2)
  /\ box1.width # box2.width
  /\ box1.x # box2.x
  /\ iou.num > 0

\* C8: for every pair of boxes whose extents are disjoint or merely touch on
\* at least one axis, calculateIoU returns 0.
C8_DisjointIoUIsZero ==
  (pc = "done" /\ NoOverlapOnSomeAxis(box1, box2)) => iou.num = 0

\* two boxes of positive area that touch along a vertical edge
C8_Witness ==
  /\ pc = "done"
  /\ PositiveBox(box1) /\ PositiveBox(box2)
  /\ Hi(box1.x, box1.width) = Lo(box2.x, box2.width)
  /\ box1.y = box2.y
  /\ iou.num = 0

----------------------------------------------------------------------------
(* Properties of applyNMS, under SpecNMS *)

Range(seq) == { seq[i] : i \in 1..Len(seq) }

IoUExceeds(i, j) ==
  RatGtPercent(calculateIoU(detections[i].box, detections[j].box), IOU_THRESHOLD)

\* i comes before j once the list is sorted by descending confidence, ties in
\* input order
RankedBefore(i, j) ==
  \/ detections[i].confidence > detections[j].confidence
  \/ detections[i].confidence = detections[j].confidence /\ i < j

\* C1: the list returned by applyNMS never holds two detections of the same
\* class whose IoU exceeds iouThreshold; and of two same-class candidates at
\* or above the confidence threshold whose IoU exceeds the threshold, given
\* alone, only the one of higher confidence is returned.
C1_NoSameClassOverlap ==
  pc = "done" =>
    /\ \A a, b \in 1..Len(kept) :
         (a < b /\ detections[kept[a]].classId = detections[kept[b]].classId)
            => ~IoUExceeds(kept[a], kept[b])
    /\ \A i, j \in 1..Len(detections) :
         ( /\ Len(detections) = 2
           /\ detections[i].classId = detections[j].classId
           /\ IoUExceeds(i, j)
           /\ detections[j].confidence >= CONFIDENCE_THRESHOLD
           /\ detections[i].confidence > detections[j].confidence )
            => kept = <<i>>

\* scenario B, the better candidate second in the input
C1_Witness ==
  /\ pc = "done"
  /\ Len(detections) = 2
  /\ detections[1].classId = detections[2].classId
  /\ detections[1].box # detections[2].box
  /\ IoUExceeds(1, 2)
  /\ detections[1].confidence = 60
  /\ detections[2].confidence = 90
  /\ kept = <<2>>

\* C2: the list returned by the suppressor never holds two detections that
\* have different class ids, belong to the same confusion group and whose
\* IoU exceeds the overlap threshold.
C2_NoConfusedOverlap ==
  pc = "done" =>
    \A a, b \in 1..Len(kept) :
       ( /\ a < b
         /\ detections[kept[a]].classId # detections[kept[b]].classId
         /\ SameConfusionGroup(detections[kept[a]].classId,
                               detections[kept[b]].classId) )
          => ~IoUExceeds(kept[a], kept[b])

\* C9: the list returned by the suppressor is ordered by non-increasing
\* confidence, and detections of equal confidence keep the relative order
\* they had in the input.
C9_SortedStable ==
  pc = "done" =>
    \A a, b \in 1..Len(kept) :
       a < b =>
         /\ detections[kept[a]].confidence >= detections[kept[b]].confidence
         /\ (detections[kept[a]].confidence = detections[kept[b]].confidence
               => kept[a] < kept[b])

\* two equal confidences followed in the input by a higher one
C9_Witness ==
  /\ pc = "done"
  /\ Len(detections) = 3
  /\ detections[1].confidence = detections[2].confidence
  /\ detections[3].confidence > detections[1].confidence
  /\ kept = <<3, 1, 2>>

\* C10: every input candidate at or above the confidence threshold that is
\* missing from the result has a kept candidate ranked before it whose IoU
\* with it exceeds the overlap threshold and which has its class or is in
\* its confusion group; nothing is dropped for the number of candidates.
C10_RemovedOnlyByOverlap ==
  pc = "done" =>
    \A i \in 1..Len(detections) :
       (detections[i].confidence >= CONFIDENCE_THRESHOLD /\ i \notin Range(kept))
          => \E k \in Range(kept) :
               /\ RankedBefore(k, i)
               /\ IoUExceeds(k, i)
               /\ \/ detections[k].classId = detections[i].classId
                  \/ SameConfusionGroup(detections[k].classId, detections[i].classId)

\* a list of full length of which one candidate is suppressed and the
\* others, among them one of another class that overlaps it, are kept
C10_Witness ==
  /\ pc = "done"
  /\ Len(detections) = MaxDetections
  /\ \A i \in 1..Len(detections) : detections[i].confidence >= CONFIDENCE_THRESHOLD
  /\ Len(kept) = MaxDetections - 1
  /\ \E i \in 1..Len(detections), k \in Range(kept) :
        /\ i \notin Range(kept)
        /\ detections[k].classId # detections[i].classId
        /\ IoUExceeds(k, i)

----------------------------------------------------------------------------
(* Properties of parseYOLOOutput, under SpecParse *)

\* C3: when the tensor's declared channel count differs from
\* 4 + numClasses + numMaskCoefficients, the parser fails the invocation with
\* a configuration error and produces no candidate list.
C3_ChannelMismatchIsFatal ==
  (pc = "done" /\ output0.dims[2] # ExpectedChannels)
     => (error # NoValue /\ rawDetections = NoValue)

----------------------------------------------------------------------------
(* Properties of generateMask, under SpecMask *)

\* C4: when a detection's mask-coefficient sequence length differs from the
\* prototype tensor's channel count, mask reconstruction fails the
\* invocation with a configuration error and produces no mask.
C4_CoeffMismatchIsFatal ==
  (pc = "done" /\ Len(maskCoeffs) # output1.dims[2])
     => (error # NoValue /\ binaryMask = NoValue)

----------------------------------------------------------------------------
(* Properties of runInference, under SpecPipeline *)

----------------------------------------------------------------------------
(* Further properties of applyNMS, under SpecNMS *)

\* C11: for any input, pre-filtered or not, the result of applyNMS is a
\* sub-collection of the input whose confidences are at or above the
\* confidence threshold: every kept element is an input element, none is
\* kept twice, the result is never longer than the input, and an empty input
\* gives an empty result without failing.
C11_SubCollectionAboveThreshold ==
  pc = "done" =>
     /\ error = NoValue
     /\ \A k \in 1..Len(kept) :
          /\ kept[k] \in 1..Len(detections)
          /\ detections[kept[k]].confidence >= CONFIDENCE_THRESHOLD
     /\ \A k, l \in 1..Len(kept) : kept[k] = kept[l] => k = l
     /\ Len(kept) <= Len(detections)
     /\ detections = <<>> => kept = <<>>

\* an input that was not pre-filtered, of which something is kept
C11_Witness ==
  /\ pc = "done"
  /\ \E i \in 1..Len(detections) : detections[i].confidence < CONFIDENCE_THRESHOLD
  /\ Len(kept) > 0

----------------------------------------------------------------------------
(* Further properties of parseYOLOOutput, under SpecParse *)

\* The class score of anchor i for class c in the tensor handed to the parser
ScoreOf(i, c) == output0.data[(4 + c) * output0.dims[3] + i + 1].v

MaxScoreOf(i) ==
  CHOOSE s \in { ScoreOf(i, c) : c \in 0..(numClasses - 1) } :
     \A c \in 0..(numClasses - 1) : ScoreOf(i, c) <= s

\* The anchors whose maximum class score is at or above the threshold
EmittingAnchors ==
  { i \in 0..(output0.dims[3] - 1) : MaxScoreOf(i) >= CONFIDENCE_THRESHOLD }

\* C12: the parser emits exactly one candidate for each anchor whose maximum
\* class score is at or above the confidence threshold, in anchor order, and
\* none for any other anchor; the candidate's confidence is that maximum and
\* its classId is the lowest class index that attains it.
C12_OneCandidatePerQualifyingAnchor ==
  pc = "done" =>
     /\ Len(rawDetections) = Cardinality(EmittingAnchors)
     /\ \A i \in EmittingAnchors :
          LET k == Cardinality({ j \in EmittingAnchors : j <= i })
          IN  /\ rawDetections[k].confidence = MaxScoreOf(i)
              /\ ScoreOf(i, rawDetections[k].classId) = MaxScoreOf(i)
              /\ \A c \in 0..(numClasses - 1) :
                   ScoreOf(i, c) = MaxScoreOf(i) => rawDetections[k].classId <= c

\* an anchor whose two best classes tie exactly at the threshold and is
\* emitted, next to an anchor that is below the threshold
C12_Witness ==
  /\ pc = "done"
  /\ output0.dims[2] = ExpectedChannels
  /\ \E i \in EmittingAnchors :
       /\ MaxScoreOf(i) = CONFIDENCE_THRESHOLD
       /\ ScoreOf(i, 0) = ScoreOf(i, 1)
  /\ \E i \in 0..(output0.dims[3] - 1) : i \notin EmittingAnchors
  /\ Len(rawDetections) = 1

----------------------------------------------------------------------------
(* Further properties of generateMask, under SpecMask *)

\* C13: for every coefficient vector and prototype tensor, the mask that
\* generateMask returns has length INPUT_SIZE squared and every entry is
\* exactly 0 or 1.
C13_MaskIsBinaryOfOutputSize ==
  pc = "done" =>
     /\ Len(binaryMask) = INPUT_SIZE * INPUT_SIZE
     /\ \A k \in 1..Len(binaryMask) : binaryMask[k] \in {0, 1}

\* a prototype grid smaller than the output whose mask has ones and zeros
C13_Witness ==
  /\ pc = "done"
  /\ output1.dims[3] * output1.dims[4] < INPUT_SIZE * INPUT_SIZE
  /\ \E k \in 1..Len(binaryMask) : binaryMask[k] = 1
  /\ \E k \in 1..Len(binaryMask) : binaryMask[k] = 0

----------------------------------------------------------------------------
(* Properties of resizeAndBinarizeMask, under SpecResize *)

\* C14: for every destination pixel (x, y) of the output mask, its value is
\* 1 exactly when the soft mask value at source cell
\* (floor(y * srcH / dstH), floor(x * srcW / dstW)) is at or above the mask
\* threshold, else 0; the source cell is always inside the srcH x srcW grid.
C14_NearestNeighbourOfExactQuotient ==
  pc = "done" =>
     \A y \in 0..(resizeDims.dstH - 1), x \in 0..(resizeDims.dstW - 1) :
        LET srcY == (y * resizeDims.srcH) \div resizeDims.dstH
            srcX == (x * resizeDims.srcW) \div resizeDims.dstW
        IN  /\ srcY < resizeDims.srcH
            /\ srcX < resizeDims.srcW
            /\ resizedMask[y * resizeDims.dstW + x + 1]
                 = IF FGe(softMask[srcY * resizeDims.srcW + srcX + 1], Num(MASK_THRESHOLD))
                   THEN 1 ELSE 0

----------------------------------------------------------------------------
(* Properties of calculateNutrition, under SpecNutrition *)

\* The number of ones of a mask
OnesOf(mask) == Cardinality({ k \in 1..Len(mask) : mask[k] = 1 })

\* n * pixelRatio^2 * thickness * density, as one fraction
ExpectedWeight(n, foodInfo) ==
  Q(n * 30 * 30 * foodInfo.defaultThicknessCm.num * foodInfo.density.num,
    INPUT_SIZE * INPUT_SIZE * foodInfo.defaultThicknessCm.den * foodInfo.density.den)

\* per100g * weight / 100, as one fraction
ExpectedNutrient(per100g, weight) ==
  Q(per100g.num * weight.num, per100g.den * weight.den * 100)

NutrientFields == {"calories", "protein", "carbs", "fat", "fiber"}

Per100gOf(foodInfo, field) ==
  CASE field = "calories" -> foodInfo.caloriesPer100g
    [] field = "protein" -> foodInfo.proteinPer100g
    [] field = "carbs" -> foodInfo.carbsPer100g
    [] field = "fat" -> foodInfo.fatPer100g
    [] field = "fiber" -> foodInfo.fiberPer100g

\* C15: for every binary mask with n ones and every food reference,
\* calculateNutrition returns weightGrams = n * pixelRatio^2 * thickness *
\* density and each nutrient = its per-100g value * weightGrams / 100; when
\* n = 0 every field is 0.
C15_NutritionFormula ==
  \A i \in 1..Len(nutritionCalls) :
     LET call == nutritionCalls[i]
         n == OnesOf(call.mask)
         weight == ExpectedWeight(n, call.foodInfo)
     IN  /\ call.nutrition.weightGrams = weight
         /\ \A f \in NutrientFields :
              call.nutrition[f] = ExpectedNutrient(Per100gOf(call.foodInfo, f), weight)
         /\ n = 0 => /\ call.nutrition.weightGrams = Q(0, 1)
                     /\ \A f \in NutrientFields : call.nutrition[f] = Q(0, 1)

\* a call on a mask without ones and a call on a mask with ones and zeros
C15_Witness ==
  /\ \E i \in 1..Len(nutritionCalls) :
        /\ OnesOf(nutritionCalls[i].mask) = 0
        /\ Len(nutritionCalls[i].mask) > 0
  /\ \E i \in 1..Len(nutritionCalls) :
        /\ OnesOf(nutritionCalls[i].mask) > 0
        /\ OnesOf(nutritionCalls[i].mask) < Len(nutritionCalls[i].mask)
        /\ nutritionCalls[i].nutrition.calories.num > 0

Twice(q) == Q(2 * q.num, q.den)

\* C16: holding the food reference fixed, a mask with 2n ones yields exactly
\* twice the weightGrams, calories, protein, carbs, fat and fiber of a mask
\* with n ones.
C16_DoublingPixelsDoublesNutrition ==
  \A i, j \in 1..Len(nutritionCalls) :
     ( /\ nutritionCalls[i].foodInfo = nutritionCalls[j].foodInfo
       /\ OnesOf(nutritionCalls[j].mask) = 2 * OnesOf(nutritionCalls[i].mask) )
     => /\ nutritionCalls[j].nutrition.weightGrams
             = Twice(nutritionCalls[i].nutrition.weightGrams)
        /\ \A f \in NutrientFields :
             nutritionCalls[j].nutrition[f] = Twice(nutritionCalls[i].nutrition[f])

\* two calls for the same food, the second mask with twice the ones
C16_Witness ==
  \E i, j \in 1..Len(nutritionCalls) :
     /\ nutritionCalls[i].foodInfo = nutritionCalls[j].foodInfo
     /\ OnesOf(nutritionCalls[i].mask) > 0
     /\ OnesOf(nutritionCalls[j].mask) = 2 * OnesOf(nutritionCalls[i].mask)
     /\ nutritionCalls[j].nutrition.weightGrams.num > 0

----------------------------------------------------------------------------
(* Further properties of runInference, under SpecPipeline *)

\* The calories of the detections dets[k], dets[k + 1], ..., added up
RECURSIVE CaloriesFrom(_, _)
CaloriesFrom(dets, k) ==
  IF k > Len(dets) THEN Q(0, 1)
  ELSE QAdd(dets[k].nutrition.calories, CaloriesFrom(dets, k + 1))

\* C17: in every InferenceResult the pipeline returns, totalCalories is the
\* sum of nutrition.calories over exactly the detections of that result.
C17_TotalCaloriesIsSum ==
  \A i \in 1..Len(invocations) :
     invocations[i].type = "INFER_SUCCESS" =>
        invocations[i].payload.totalCalories
           = CaloriesFrom(invocations[i].payload.detections, 1)

\* a result with two detections that both carry calories
C17_Witness ==
  \E i \in 1..Len(invocations) :
     /\ invocations[i].type = "INFER_SUCCESS"
     /\ Len(invocations[i].payload.detections) = 2
     /\ invocations[i].payload.detections[1].nutrition.calories.num > 0
     /\ invocations[i].payload.detections[2].nutrition.calories.num > 0

OutputsPresent == output0 # Undefined /\ output1 # Undefined

\* C18: when both outputs are there and no anchor meets the confidence
\* threshold, the pipeline succeeds with an empty detections list, the
\* message set and totalCalories 0; when a detection survives, the message
\* is absent.
C18_NothingDetected ==
  \A i \in 1..Len(invocations) :
     /\ (OutputsPresent /\ EmittingAnchors = {}) =>
           /\ invocations[i].type = "INFER_SUCCESS"
           /\ invocations[i].payload.detections = <<>>
           /\ invocations[i].payload.message = NothingDetectedMessage
           /\ invocations[i].payload.totalCalories = Q(0, 1)
     /\ (invocations[i].type = "INFER_SUCCESS"
           /\ Len(invocations[i].payload.detections) > 0) =>
           invocations[i].payload.message = NoValue

\* a finished call on a tensor without any anchor at the threshold
C18_Witness ==
  /\ OutputsPresent
  /\ EmittingAnchors = {}
  /\ output0.dims[3] > 1
  /\ Len(invocations) > 0

\* C20: when either output tensor is absent, the invocation ends in an ERROR
\* response that carries a message only (no InferenceResult, no detections),
\* and session.run was called once per finished invocation (no retry).
C20_MissingOutputIsError ==
  ~OutputsPresent =>
     /\ \A i \in 1..Len(invocations) :
          /\ invocations[i].type = "ERROR"
          /\ DOMAIN invocations[i].payload = {"message"}
     /\ sessionRuns = Len(invocations)

\* a finished call for which only the prototype tensor was missing
C20_Witness ==
  /\ output0 # Undefined
  /\ output1 = Undefined
  /\ Len(invocations) > 0

----------------------------------------------------------------------------
(* Properties of getFoodInfo and processDetections, under SpecProcess *)

\* C19: for every class id, known or unknown, the lookup returns a record
\* and never fails: a known id gets its own record, an unknown id the
\* fallback record, and a detection is produced for every input detection
\* with that record's label and icon and the nutrition computed from it.
C19_LookupNeverFails ==
  pc = "done" =>
     /\ error = NoValue
     /\ Len(results) = Len(toProcess)
     /\ \A k \in 1..Len(toProcess) :
          LET c == toProcess[k].classId
              known == \E id \in DOMAIN FOOD_DATABASE : id = c
              record == IF known THEN FOOD_DATABASE[c] ELSE FALLBACK_FOOD_INFO
          IN  /\ known => record.id = c
              /\ results[k].classId = c
              /\ results[k].label = record.name
              /\ results[k].icon = record.icon
              /\ results[k].nutrition = calculateNutrition(results[k].mask, record)

\* a list holding a known and an unknown class id, both with pixels
C19_Witness ==
  /\ pc = "done"
  /\ \E k \in 1..Len(results) :
       /\ results[k].classId \in DOMAIN FOOD_DATABASE
       /\ results[k].nutrition.calories.num > 0
  /\ \E k \in 1..Len(results) :
       /\ results[k].classId \notin DOMAIN FOOD_DATABASE
       /\ results[k].label = FALLBACK_FOOD_INFO.name
       /\ results[k].nutrition.calories.num > 0

----------------------------------------------------------------------------
(* Further properties of calculateIoU, under SpecIoU *)

\* box1_area + box2_area - inter_area of the two arguments, in quarter units
UnionAreaOf(b1, b2) ==
  4 * b1.width * b1.height + 4 * b2.width * b2.height
    - Max(0, Min(2 * b1.x + b1.width, 2 * b2.x + b2.width)
             - Max(2 * b1.x - b1.width, 2 * b2.x - b2.width))
      * Max(0, Min(2 * b1.y + b1.height, 2 * b2.y + b2.height)
               - Max(2 * b1.y - b1.height, 2 * b2.y - b2.height))

----------------------------------------------------------------------------
(* End-to-end scenario A, under SpecPipeline *)

\* The number of prototype cells of the first channel that hold 1, the cells
\* meant to lie above the threshold
ProtoOnes ==
  Cardinality({ i \in 1..(output1.dims[3] * output1.dims[4]) : output1.data[i].v = 1 })

\* A single anchor of class 0 with confidence 0.9 and all-zero mask
\* coefficients, and a prototype tensor
ScenarioA ==
  /\ OutputsPresent
  /\ output0.dims = <<1, ExpectedChannels, 1>>
  /\ ScoreOf(0, 0) = 90
  /\ \A c \in 1..(numClasses - 1) : ScoreOf(0, c) = 10
  /\ \A m \in 0..(numMaskCoeffs - 1) : output0.data[4 + numClasses + m + 1].v = 0

\* The pixels of the output mask per prototype cell
UpsamplingRatio == (INPUT_SIZE * INPUT_SIZE) \div (MaxProto * MaxProto)

----------------------------------------------------------------------------
(* Properties of the worker's message handler, under SpecWorker and
   SpecWorkerLive *)

CreatesInFlight == { r \in RequestIds : handlers[r] = "create" }

WaitingForInitialization ==
  { r \in RequestIds : handlers[r] = "waitForInitialization" }

ResponsesTo(r) == { k \in 1..Len(posted) : posted[k].id = r }

ErrorsPosted == { k \in 1..Len(posted) : posted[k].type = "ERROR" }

\* The response types a request of the given type may be answered with
MatchingTypes(type) ==
  CASE type = "INIT" -> {"INIT_SUCCESS", "ERROR"}
    [] type = "INFER" -> {"INFER_SUCCESS", "ERROR"}
    [] type = "TERMINATE" -> {"TERMINATE_SUCCESS", "ERROR"}
    [] OTHER -> {"ERROR"}

\* C26: session initialization is a singleton.  At most one
\* InferenceSession.create is in flight at any time, none is in flight while a
\* session exists, and a call that needs the session while one is in flight
\* polls for it: whoever polls while isInitializing is set has exactly that one
\* create to wait for.
C26_SingletonInitialization ==
  /\ Cardinality(CreatesInFlight) <= 1
  /\ CreatesInFlight # {} => session = NoValue
  /\ (WaitingForInitialization # {} /\ isInitializing)
       => Cardinality(CreatesInFlight) = 1

\* One call awaits the creation while another, an INIT or an INFER, polls
C26_Witness ==
  /\ CreatesInFlight # {}
  /\ \E r \in WaitingForInitialization : requests[r].type = "INFER"

\* C25: INIT_SUCCESS is posted for an INIT request only if a session exists
\* at that moment, in every interleaving, the one included where the creation
\* in flight fails while another INIT polls in waitForInitialization.
C25_InitSuccessOnlyWithSession ==
  [][\A r \in RequestIds :
       ( /\ requests[r].type = "INIT"
         /\ handlers[r] # "done" /\ handlers'[r] = "done"
         /\ posted'[Len(posted')].type = "INIT_SUCCESS" )
       => session' # NoValue]_vars

\* C24: every request the worker receives, whatever its type and whatever the
\* interleaving, is answered exactly once: no response before its call has
\* finished, one response with its id once it has, of the matching success
\* type or ERROR, and every call finishes.
C24_OneResponsePerRequest ==
  /\ [](\A k \in 1..Len(posted) : posted[k].id \in RequestIds)
  /\ [](\A r \in RequestIds :
          /\ Cardinality(ResponsesTo(r)) = (IF handlers[r] = "done" THEN 1 ELSE 0)
          /\ \A k \in ResponsesTo(r) :
               posted[k].type \in MatchingTypes(requests[r].type))
  /\ <>(\A r \in RequestIds : handlers[r] = "done")

\* All requests answered, an INFER with its result, out of request order
C24_Witness ==
  /\ \A r \in RequestIds : handlers[r] = "done"
  /\ \E k \in 1..Len(posted) : posted[k].type = "INFER_SUCCESS"
  /\ \E k \in 1..Len(posted) : posted[k].type = "ERROR"
  /\ \E j, k \in 1..Len(posted) : j < k /\ posted[j].id > posted[k].id

\* C21: a failed invocation leaves the shared state usable.  isInitializing
\* is set only while a creation is in flight, so no failure leaves it set; and
\* once some invocation has failed, every INFER request, those still in the
\* queue included, is processed and answered.
C21_FailureDoesNotBlock ==
  /\ [](isInitializing => CreatesInFlight # {})
  /\ (ErrorsPosted # {})
       ~> (\A r \in RequestIds : requests[r].type = "INFER" => handlers[r] = "done")

\* A session creation failed, and an INFER sent after the failed request was
\* answered with its result
C21_Witness ==
  \E j, k \in 1..Len(posted) :
    /\ j < k
    /\ posted[j].type = "ERROR" /\ posted[j].message = "create failed"
    /\ posted[k].type = "INFER_SUCCESS"
    /\ posted[j].id < posted[k].id
    /\ ~isInitializing

----------------------------------------------------------------------------
(* Properties of InferenceWorkerClient, under SpecClient and SpecClientLive *)

PromiseIds == 1..Len(promises)

\* getPendingCount()
getPendingCount == Cardinality(DOMAIN pendingRequests)

\* The message of a request has been answered and the answer delivered
AnswerDelivered(id) ==
  /\ \E k \in DOMAIN toWorker : toWorker[k].id = id /\ toWorker[k].answered
  /\ \A response \in fromWorker : response.id # id

\* C27: each request's promise is settled at most once over the four paths
\* (response, timeout, worker error, terminate): its resolve and reject are
\* called once at most; request ids are never reused; a promise is resolved
\* only by a response with its own id; and a request has its entry in
\* pendingRequests, and its timer armed, exactly while its promise is pending,
\* so that a response arriving after the timeout finds no entry.
C27_SettledOnceByOwnResponse ==
  /\ \A i \in PromiseIds : promises[i].calls <= 1
  /\ \A i, j \in PromiseIds :
       (i # j /\ promises[i].id # NoValue) => promises[i].id # promises[j].id
  /\ \A i \in PromiseIds :
       promises[i].state = "resolved" => promises[i].reason = promises[i].id
  /\ \A i \in PromiseIds :
       promises[i].state = "pending"
         <=> ( /\ promises[i].id \in DOMAIN pendingRequests
               /\ pendingRequests[promises[i].id] = i )
  /\ timers = { pendingRequests[k] : k \in DOMAIN pendingRequests }

\* A request timed out and its late response was delivered; another request
\* was resolved by its response
C27_Witness ==
  /\ \E i \in PromiseIds :
       /\ promises[i].reason = "Worker request timeout"
       /\ promises[i].calls = 1
       /\ AnswerDelivered(promises[i].id)
  /\ \E i \in PromiseIds : promises[i].state = "resolved"

\* C28: every promise returned by initialize() or infer() settles, whether or
\* not the worker answers: a pending promise has its timer armed, a call made
\* without a worker is rejected at once, and from some moment on (the calls
\* being finitely many) every promise returned is settled and
\* getPendingCount() is 0.
C28_EveryPromiseSettles ==
  /\ [](\A i \in PromiseIds : promises[i].state = "pending" => i \in timers)
  /\ [](\A i \in PromiseIds :
          promises[i].id = NoValue
            => /\ promises[i].state = "rejected"
               /\ promises[i].reason = "Worker not initialized")
  /\ <>[]( /\ \A i \in PromiseIds : promises[i].state # "pending"
           /\ getPendingCount = 0 )

\* Every call allowed was made, the worker answered none of them, and all
\* were rejected by their timeouts
C28_Witness ==
  /\ Len(promises) = MaxSends
  /\ \A k \in DOMAIN toWorker : ~toWorker[k].answered
  /\ \A i \in PromiseIds : promises[i].reason = "Worker request timeout"
  /\ getPendingCount = 0

\* C29: terminate() rejects every outstanding promise with "Worker
\* terminated"; afterwards getPendingCount() is 0, isReady() is false (worker
\* is null), and every later initialize() or infer() is rejected with "Worker
\* not initialized", adds no pending entry and posts no message.
C29_AfterTerminate ==
  /\ [][(worker # NoValue /\ worker' = NoValue)
          => \A i \in PromiseIds :
               promises[i].state = "pending"
                 => /\ promises'[i].state = "rejected"
                    /\ promises'[i].reason = "Worker terminated"]_vars
  /\ [](worker = NoValue
          => /\ getPendingCount = 0
             /\ \A i \in PromiseIds : promises[i].state # "pending")
  /\ [][worker = NoValue
          => /\ pendingRequests' = pendingRequests
             /\ toWorker' = toWorker
             /\ \A i \in DOMAIN promises' \ DOMAIN promises :
                  /\ promises'[i].state = "rejected"
                  /\ promises'[i].reason = "Worker not initialized"]_vars

\* terminate() rejected two outstanding requests, and a call made afterwards
\* was rejected for want of a worker
C29_Witness ==
  /\ worker = NoValue
  /\ Cardinality({ i \in PromiseIds : promises[i].reason = "Worker terminated" }) >= 2
  /\ \E i \in PromiseIds : promises[i].reason = "Worker not initialized"
  /\ Len(toWorker) = 3

----------------------------------------------------------------------------
(* Properties of useInference, under SpecHook *)

InFlight == { i \in DOMAIN inferCalls : inferCalls[i] = "in flight" }

\* C30: isProcessing is true exactly while at least one runInference call is
\* in flight, whatever the interleaving of overlapping calls that succeed or
\* fail.
C30_ProcessingWhileInFlight == isProcessing <=> InFlight # {}

====
